---------------------------- MODULE Spec2Model ----------------------------
(***************************************************************************)
(* Model of the audio-extraction service: the POST /extract-audio handler  *)
(* of server.js with its helpers (safeMkdir, safeRmdir, ffprobeJson,       *)
(* getDurationSeconds, downloadDriveFile, uploadAndSign, extractAudio).    *)
(*                                                                         *)
(* One request is one instance of the async handler.  JavaScript runs the  *)
(* code between two awaits without interruption, so every action below is  *)
(* one such run-to-completion section; the environment (Drive, the write   *)
(* stream, the object store, ffprobe, ffmpeg, the file system) picks the   *)
(* outcome of every call that can fail.                                    *)
(***************************************************************************)
EXTENDS Integers, Sequences, FiniteSets, TLC

(***************************************************************************)
(* Bounds of the model.                                                    *)
(***************************************************************************)
NumReq == 2

Req == 1..NumReq

(***************************************************************************)
(* JavaScript values.  Every value is a record of the same shape: t is the *)
(* type tag, n the numeric payload, s the characters of a string.          *)
(* Numbers are integers here; "nan" and "infinity" are the non-finite      *)
(* numbers.                                                                *)
(***************************************************************************)
JS(t, n, s) == [t |-> t, n |-> n, s |-> s]

Undefined == JS("undefined", 0, <<>>)
Null      == JS("null", 0, <<>>)
NaN       == JS("nan", 0, <<>>)
Infinity  == JS("infinity", 1, <<>>)
Obj       == JS("object", 0, <<>>)
Num(n)    == JS("number", n, <<>>)
Bool(b)   == JS("boolean", IF b THEN 1 ELSE 0, <<>>)
Str(s)    == JS("string", 0, s)

\* ToBoolean: what `!x` and `x || y` test.
Truthy(v) ==
  CASE v.t \in {"undefined", "null", "nan"} -> FALSE
    [] v.t = "number"  -> v.n # 0
    [] v.t = "boolean" -> v.n = 1
    [] v.t = "string"  -> v.s # <<>>
    [] OTHER           -> TRUE

\* What `x ?? y` tests.
Nullish(v) == v.t \in {"undefined", "null"}

Digits == <<"0", "1", "2", "3", "4", "5", "6", "7", "8", "9">>

IsDigit(c) == \E i \in 1..Len(Digits) : Digits[i] = c

DigitVal(c) == (CHOOSE i \in 1..Len(Digits) : Digits[i] = c) - 1

RECURSIVE TrimStart(_)
TrimStart(s) == IF s # <<>> /\ Head(s) = " " THEN TrimStart(Tail(s)) ELSE s

RECURSIVE TrimEnd(_)
TrimEnd(s) ==
  IF s # <<>> /\ s[Len(s)] = " " THEN TrimEnd(SubSeq(s, 1, Len(s) - 1)) ELSE s

RECURSIVE DigitsValue(_)
DigitsValue(s) ==
  IF s = <<>> THEN 0
  ELSE 10 * DigitsValue(SubSeq(s, 1, Len(s) - 1)) + DigitVal(s[Len(s)])

AllDigits(s) == s # <<>> /\ \A i \in 1..Len(s) : IsDigit(s[i])

\* StringToNumber of the language, for strings of spaces, a sign and decimal
\* digits and letters (no ".", no exponent, no "0x", not "Infinity"): the
\* trimmed string is empty (0), a signed decimal integer, or not a number.
StringToNumber(s) ==
  LET t == TrimEnd(TrimStart(s))
      u == IF t # <<>> /\ Head(t) \in {"-", "+"} THEN Tail(t) ELSE t
  IN  IF t = <<>> THEN Num(0)
      ELSE IF ~AllDigits(u) THEN NaN
      ELSE IF Head(t) = "-" THEN Num(0 - DigitsValue(u))
      ELSE Num(DigitsValue(u))

\* Number(v): ToNumber.
Number(v) ==
  CASE v.t = "undefined" -> NaN
    [] v.t = "null"      -> Num(0)
    [] v.t = "boolean"   -> Num(v.n)
    [] v.t = "string"    -> StringToNumber(v.s)
    [] v.t = "object"    -> NaN
    [] OTHER             -> v

\* Number.isFinite(v): a number that is neither NaN nor an infinity.
NumberIsFinite(v) == v.t = "number"

RECURSIVE NatToStr(_)
NatToStr(n) ==
  IF n < 10 THEN <<Digits[n + 1]>>
  ELSE NatToStr(n \div 10) \o <<Digits[(n % 10) + 1]>>

\* String(v) and `${v}`: ToString.
String(v) ==
  CASE v.t = "string"    -> v.s
    [] v.t = "number"    -> IF v.n < 0 THEN <<"-">> \o NatToStr(0 - v.n)
                            ELSE NatToStr(v.n)
    [] v.t = "boolean"   -> IF v.n = 1 THEN <<"t", "r", "u", "e">>
                            ELSE <<"f", "a", "l", "s", "e">>
    [] v.t = "undefined" -> <<"u", "n", "d", "e", "f", "i", "n", "e", "d">>
    [] v.t = "null"      -> <<"n", "u", "l", "l">>
    [] v.t = "nan"       -> <<"N", "a", "N">>
    [] v.t = "infinity"  -> <<"I", "n", "f", "i", "n", "i", "t", "y">>
    [] OTHER             -> <<"[", "o", "b", "j", "e", "c", "t", " ",
                              "O", "b", "j", "e", "c", "t", "]">>

UpperCase == <<"A", "B", "C", "D", "E", "F", "G", "H", "I", "J", "K", "L", "M",
               "N", "O", "P", "Q", "R", "S", "T", "U", "V", "W", "X", "Y", "Z">>
LowerCase == <<"a", "b", "c", "d", "e", "f", "g", "h", "i", "j", "k", "l", "m",
               "n", "o", "p", "q", "r", "s", "t", "u", "v", "w", "x", "y", "z">>

LowerChar(c) ==
  IF \E i \in 1..Len(UpperCase) : UpperCase[i] = c
  THEN LowerCase[CHOOSE i \in 1..Len(UpperCase) : UpperCase[i] = c]
  ELSE c

\* String.prototype.toLowerCase on the characters of a string.
ToLowerCase(s) == [i \in 1..Len(s) |-> LowerChar(s[i])]


(***************************************************************************)
(* Constants of the program.                                               *)
(***************************************************************************)
DefaultBitrateK   == 32
DefaultSampleRate == 16000
DefaultChannels   == 1

S_ogg     == <<"o", "g", "g">>
S_mp3     == <<"m", "p", "3">>
S_wav     == <<"w", "a", "v">>
S_ffmpeg  == <<"f", "f", "m", "p", "e", "g">>
S_input   == <<"i", "n", "p", "u", "t", ".", "m", "p", "4">>
S_audioDot == <<"a", "u", "d", "i", "o", ".">>

\* The process environment: BUCKET is unset, empty or a bucket's name.
S_bucket == <<"b", "k", "t">>

\* const workDir = `/tmp/${fileId}-audio`
WorkDir(fileId) ==
  <<"/", "t", "m", "p", "/">> \o String(fileId) \o <<"-", "a", "u", "d", "i", "o">>

\* path.join(dir, name), for a dir and a name without ".", ".." or "//"
\* segments, which is all that a fileId without "/" and "." gives: the two
\* joined by one separator, nothing to normalise.
PathJoin(dir, name) == dir \o <<"/">> \o name

InputPath(fileId) == PathJoin(WorkDir(fileId), S_input)

\* const format = (req.body?.format || "ogg").toLowerCase(): the receiver of
\* the call, and whether the call throws (a truthy value that is no string
\* has no toLowerCase method: TypeError).
FormatReceiver(b) == IF Truthy(b.format) THEN b.format ELSE Str(S_ogg)

FormatThrows(b) == FormatReceiver(b).t # "string"

Format(b) == ToLowerCase(FormatReceiver(b).s)

\* const audioExt = format === "mp3" ? "mp3" : format === "wav" ? "wav" : "ogg"
AudioExt(format) ==
  IF format = S_mp3 THEN S_mp3 ELSE IF format = S_wav THEN S_wav ELSE S_ogg

AudioPath(fileId, format) ==
  PathJoin(WorkDir(fileId), S_audioDot \o AudioExt(format))

\* Number(req.body?.x ?? dflt)
ParseOpt(v, dflt) == Number(IF Nullish(v) THEN Num(dflt) ELSE v)

\* (The fallback without its "> 0".)
OrDefault_AnyFinite(x, dflt) == IF NumberIsFinite(x) THEN x ELSE Num(dflt)

\* Number.isFinite(x) && x > 0 ? x : dflt
OrDefault(x, dflt) == IF NumberIsFinite(x) /\ x.n > 0 THEN x ELSE Num(dflt)

\* The object the handler passes to extractAudio.
Options(b) ==
  [format     |-> Format(b),
   bitrateK   |-> OrDefault(ParseOpt(b.bitrateK, DefaultBitrateK), DefaultBitrateK),
   sampleRate |-> OrDefault(ParseOpt(b.sampleRate, DefaultSampleRate), DefaultSampleRate),
   channels   |-> OrDefault(ParseOpt(b.channels, DefaultChannels), DefaultChannels)]

\* if (!fileId) ...  and  if (!BUCKET) ...
MissingFileId(b) == ~Truthy(b.fileId)

\* (The handler without its bucket check.)
MissingBucket_Unchecked(bucket) == FALSE

MissingBucket(bucket) == ~Truthy(bucket)

\* (extractAudio without its final else.)
SupportedFormat_Any(format) == TRUE

\* extractAudio: the formats it has a codec for; any other throws before
\* the tool is run.
SupportedFormat(format) == format \in {S_ogg, S_mp3, S_wav}

\* extractAudio: the argument vector handed to execFileSync("ffmpeg", args).
FfmpegArgs(inputPath, outputPath, o) ==
  <<<<"-", "y">>, <<"-", "i">>, inputPath, <<"-", "v", "n">>,
    <<"-", "a", "c">>, String(o.channels), <<"-", "a", "r">>, String(o.sampleRate)>>
  \o (IF o.format = S_ogg
        THEN <<<<"-", "c", ":", "a">>, <<"l", "i", "b", "o", "p", "u", "s">>,
               <<"-", "b", ":", "a">>, String(o.bitrateK) \o <<"k">>>>
      ELSE IF o.format = S_mp3
        THEN <<<<"-", "c", ":", "a">>,
               <<"l", "i", "b", "m", "p", "3", "l", "a", "m", "e">>,
               <<"-", "b", ":", "a">>, String(o.bitrateK) \o <<"k">>>>
      ELSE <<<<"-", "c", ":", "a">>,
             <<"p", "c", "m", "_", "s", "1", "6", "l", "e">>>>)
  \o <<outputPath>>

\* ffprobeJson: the command line handed to execSync, a template string with
\* the file path spliced in between double quotes.
FfprobeCommand(filePath) ==
  <<"f", "f", "p", "r", "o", "b", "e", " ", "-", "v", " ", "e", "r", "r", "o", "r", " ",
    "-", "p", "r", "i", "n", "t", "_", "f", "o", "r", "m", "a", "t", " ",
    "j", "s", "o", "n", " ", "-", "s", "h", "o", "w", "_", "f", "o", "r", "m", "a", "t", " ",
    "-", "s", "h", "o", "w", "_", "s", "t", "r", "e", "a", "m", "s", " ", "\"">>
  \o filePath \o <<"\"">>

\* A started subprocess: through the shell with one command string (execSync)
\* or directly with a file and an argument vector (execFileSync).
ExecSync(command) ==
  [api |-> "execSync", shell |-> TRUE, file |-> <<>>, args |-> <<>>,
   command |-> command]

ExecFileSync(file, args) ==
  [api |-> "execFileSync", shell |-> FALSE, file |-> file, args |-> args,
   command |-> <<>>]

(***************************************************************************)
(* The metadata probe.  What ffprobe gives back is the environment's       *)
(* choice: a failing command, output that is not JSON, or a JSON value.    *)
(* shape says how far info?.format?.duration gets: "null" (info is null or *)
(* no object), "noformat" (no format member), "format" (format present;    *)
(* d is its duration member, Undefined when absent).                       *)
(***************************************************************************)
ProbeOut(kind, shape, d) == [kind |-> kind, shape |-> shape, d |-> d]

NoProbe == ProbeOut("none", "null", Undefined)

\* ffprobeJson throws when the command fails or JSON.parse rejects its output.
FfprobeJsonThrows(po) == po.kind # "json"

\* info?.format?.duration
DurationField(po) == IF po.shape = "format" THEN po.d ELSE Undefined

\* getDurationSeconds: null on any throw, else Number(duration) when finite.
GetDurationSeconds(po) ==
  IF FfprobeJsonThrows(po) THEN Null
  ELSE LET d == Number(DurationField(po))
       IN  IF NumberIsFinite(d) THEN d ELSE Null

(***************************************************************************)
(* The file system: the directories and files that exist, and the files    *)
(* whose content is incomplete.                                            *)
(***************************************************************************)
IsUnder(f, d) == Len(f) > Len(d) /\ SubSeq(f, 1, Len(d) + 1) = d \o <<"/">>

\* (rmSync without force: a missing path throws ENOENT.)
RmSync_NoForce(p, fs, outcome) ==
  IF p \in fs.dirs /\ outcome = "ok"
    THEN [dirs  |-> fs.dirs \ {p},
          files |-> {f \in fs.files : ~IsUnder(f, p)},
          threw |-> FALSE]
  ELSE [dirs |-> fs.dirs, files |-> fs.files, threw |-> TRUE]

\* fs.rmSync(p, { recursive: true, force: true }) inside safeRmdir's try.
\* force makes a missing path a no-op; removing an existing tree succeeds
\* or throws (EBUSY, ENOTEMPTY, EACCES, ...) as the environment decides, and
\* a throw leaves the tree in place.
RmSync(p, fs, outcome) ==
  IF p \notin fs.dirs THEN [dirs |-> fs.dirs, files |-> fs.files, threw |-> FALSE]
  ELSE IF outcome = "ok"
    THEN [dirs  |-> fs.dirs \ {p},
          files |-> {f \in fs.files : ~IsUnder(f, p)},
          threw |-> FALSE]
  ELSE [dirs |-> fs.dirs, files |-> fs.files, threw |-> TRUE]

\* (A finally block that removes nothing.)
SafeRmdir_Skipped(p, fs, outcome) ==
  [dirs |-> fs.dirs, files |-> fs.files, threw |-> FALSE]

\* safeRmdir: the throw is caught and dropped.
SafeRmdir(p, fs, outcome) == RmSync(p, fs, outcome)

RmOutcomes == {"ok", "throw"}

(***************************************************************************)
(* The state.                                                              *)
(*   BUCKET     process.env.BUCKET, read once at start-up                   *)
(*   procUp     the Node process is running                                *)
(*   dirs, files, truncated   the file system under /tmp                   *)
(*   pc         where each request's handler is suspended                  *)
(*   body       req.body of each request                                   *)
(*   res        what has been sent on each request's response object       *)
(*   stages     the pipeline stages each request has started, in order     *)
(*   spawns     the subprocesses each request has started, in order        *)
(*   handed     the options object each request passed to extractAudio     *)
(*   probe      ffprobe's answer and getDurationSeconds' result            *)
(*   cleanup    what the finally block's safeRmdir met and left            *)
(***************************************************************************)
VARIABLES BUCKET, procUp, dirs, files, truncated,
          pc, body, res, stages, spawns, handed, probe, cleanup

vars == <<BUCKET, procUp, dirs, files, truncated,
          pc, body, res, stages, spawns, handed, probe, cleanup>>

Body(fileId, format, bitrateK, sampleRate, channels) ==
  [fileId |-> fileId, format |-> format, bitrateK |-> bitrateK,
   sampleRate |-> sampleRate, channels |-> channels]

NoBody == Body(Undefined, Undefined, Undefined, Undefined, Undefined)

NoOptions ==
  [format |-> <<>>, bitrateK |-> Undefined, sampleRate |-> Undefined,
   channels |-> Undefined]

NoRes ==
  [status |-> 0, error |-> FALSE, audioUrl |-> FALSE, by |-> "none",
   msg |-> "", count |-> 0]

NoProbeResult == [out |-> NoProbe, durationSec |-> Undefined]

NoCleanup == [ran |-> FALSE, existed |-> FALSE, threw |-> FALSE, left |-> FALSE]

Init ==
  /\ BUCKET \in {Undefined, Str(<<>>), Str(S_bucket)}
  /\ procUp = TRUE
  /\ dirs = {}
  /\ files = {}
  /\ truncated = {}
  /\ pc = [r \in Req |-> "idle"]
  /\ body = [r \in Req |-> NoBody]
  /\ res = [r \in Req |-> NoRes]
  /\ stages = [r \in Req |-> <<>>]
  /\ spawns = [r \in Req |-> <<>>]
  /\ handed = [r \in Req |-> NoOptions]
  /\ probe = [r \in Req |-> NoProbeResult]
  /\ cleanup = [r \in Req |-> NoCleanup]

Fs == [dirs |-> dirs, files |-> files, truncated |-> truncated]

\* res.status(status).json({ error: msg })  and  res.json({ fileId, audioUrl, meta })
JsonError(r, status, msg) ==
  [status |-> status, error |-> TRUE, audioUrl |-> FALSE, by |-> "handler",
   msg |-> msg, count |-> res[r].count + 1]

JsonResult(r) ==
  [status |-> 200, error |-> FALSE, audioUrl |-> TRUE, by |-> "handler",
   msg |-> "", count |-> res[r].count + 1]

\* The part of a step that is the request's own bookkeeping.
ReqUpd(r, newpc, stg, sp, hd, pb) ==
  /\ pc' = [pc EXCEPT ![r] = newpc]
  /\ stages' = [stages EXCEPT ![r] = @ \o stg]
  /\ spawns' = [spawns EXCEPT ![r] = @ \o sp]
  /\ handed' = [handed EXCEPT ![r] = hd]
  /\ probe' = [probe EXCEPT ![r] = pb]

\* The handler goes on to its next await.
Goes(r, newpc, fs, stg, sp, hd, pb) ==
  /\ ReqUpd(r, newpc, stg, sp, hd, pb)
  /\ dirs' = fs.dirs
  /\ files' = fs.files
  /\ truncated' = fs.truncated
  /\ UNCHANGED <<res, cleanup, BUCKET, procUp>>

\* A return before the try block: the response, no finally.
Returns(r, response) ==
  /\ ReqUpd(r, "done", <<"Respond">>, <<>>, handed[r], probe[r])
  /\ res' = [res EXCEPT ![r] = response]
  /\ UNCHANGED <<cleanup, dirs, files, truncated, BUCKET, procUp>>

\* A return inside try or catch: the response, then finally { safeRmdir(workDir) }.
Ends(r, wd, response, fs, rmo, stg, sp, hd, pb) ==
  LET rm == SafeRmdir(wd, fs, rmo)
  IN  /\ ReqUpd(r, "done", stg \o <<"Respond", "Cleanup">>, sp, hd, pb)
      /\ res' = [res EXCEPT ![r] = response]
      /\ dirs' = rm.dirs
      /\ files' = rm.files
      /\ truncated' = fs.truncated \cap rm.files
      /\ cleanup' = [cleanup EXCEPT ![r] =
                       [ran |-> TRUE, existed |-> wd \in fs.dirs,
                        threw |-> rm.threw, left |-> wd \in rm.dirs]]
      /\ UNCHANGED <<BUCKET, procUp>>

\* catch (err) { return res.status(500).json({ error: err.message }) } finally ...
Fails(r, wd, msg, fs, rmo, stg, sp, hd, pb) ==
  Ends(r, wd, JsonError(r, 500, msg), fs, rmo, stg, sp, hd, pb)

\* What becomes of an exception that leaves the async handler: the router
\* does not await the handler (the rejection is unhandled and Node ends the
\* process), or it passes the rejection to its error handler, which answers
\* 500 with a body of its own.
EscapeOutcomes == {"unhandledRejection", "errorHandler"}

Escapes(r, out) ==
  /\ ReqUpd(r, "rejected", <<>>, <<>>, handed[r], probe[r])
  /\ procUp' = (out # "unhandledRejection")
  /\ res' = [res EXCEPT ![r] =
               IF out = "errorHandler"
               THEN [status |-> 500, error |-> FALSE, audioUrl |-> FALSE,
                     by |-> "framework", msg |-> "", count |-> @.count + 1]
               ELSE @]
  /\ UNCHANGED <<cleanup, dirs, files, truncated, BUCKET>>

\* fs.mkdirSync(p, { recursive: true }): creates p, or throws (a name the
\* file system refuses, no space, ...).
MkdirOutcomes == {"ok", "throw"}

\* Lines 148-170: from the request's arrival to the await of drive.files.get.
Start(r, b) ==
  /\ procUp
  /\ pc[r] = "idle"
  /\ body' = [body EXCEPT ![r] = b]
  /\ IF FormatThrows(b)
       THEN \E out \in EscapeOutcomes : Escapes(r, out)
     ELSE IF MissingFileId(b)
       THEN Returns(r, JsonError(r, 400, "Missing fileId"))
     ELSE IF MissingBucket(BUCKET)
       THEN Returns(r, JsonError(r, 500, "Missing BUCKET env var"))
     ELSE \E mk \in MkdirOutcomes, rmo \in RmOutcomes :
            LET wd == WorkDir(b.fileId)
            IN  IF mk = "ok"
                  THEN Goes(r, "getting", [Fs EXCEPT !.dirs = @ \cup {wd}],
                            <<"CreateWorkDir", "Fetch">>, <<>>,
                            handed[r], probe[r])
                ELSE Fails(r, wd, "mkdir", Fs, rmo, <<"CreateWorkDir">>, <<>>,
                           handed[r], probe[r])

\* await drive.files.get(...) rejects: authentication, network, no such file.
DriveGetRejects(r) ==
  /\ procUp
  /\ pc[r] = "getting"
  /\ \E rmo \in RmOutcomes :
       Fails(r, WorkDir(body[r].fileId), "fetch", Fs, rmo, <<>>, <<>>,
             handed[r], probe[r])
  /\ UNCHANGED body

\* await drive.files.get(...) resolves: fs.createWriteStream(outputPath) and
\* response.data.pipe(dest) are set up; the stream opens its file later.
DriveGetResolves(r) ==
  /\ procUp
  /\ pc[r] = "getting"
  /\ Goes(r, "opening", Fs, <<>>, <<>>, handed[r], probe[r])
  /\ UNCHANGED body

\* The write stream opens outputPath (flags "w"): the file is created or
\* emptied; with the directory gone the open fails, dest emits "error" and
\* the promise rejects.
StreamOpens(r) ==
  /\ procUp
  /\ pc[r] = "opening"
  /\ LET wd == WorkDir(body[r].fileId)
         inp == InputPath(body[r].fileId)
     IN  IF wd \in dirs
           THEN Goes(r, "piping",
                     [Fs EXCEPT !.files = @ \cup {inp}, !.truncated = @ \cup {inp}],
                     <<>>, <<>>, handed[r], probe[r])
         ELSE \E rmo \in RmOutcomes :
                Fails(r, wd, "fetch", Fs, rmo, <<>>, <<>>, handed[r], probe[r])
  /\ UNCHANGED body

\* dest emits "error" while writing (disk full, I/O error): reject.
DestError(r) ==
  /\ procUp
  /\ pc[r] = "piping"
  /\ \E rmo \in RmOutcomes :
       Fails(r, WorkDir(body[r].fileId), "fetch", Fs, rmo, <<>>, <<>>,
             handed[r], probe[r])
  /\ UNCHANGED body

\* response.data emits "error" part-way.  pipe() does not forward a source
\* error to dest and the promise listens to dest only, so neither resolve
\* nor reject is ever called; the event has no listener of the handler's.
\* Either it is thrown as an uncaught exception (the process ends) or
\* another listener takes it and the await stays pending.
StreamErrorOutcomes == {"uncaughtException", "pending"}

SourceError(r) ==
  /\ procUp
  /\ pc[r] \in {"opening", "piping"}
  /\ \E out \in StreamErrorOutcomes :
       /\ procUp' = (out # "uncaughtException")
       /\ ReqUpd(r, "hung", <<>>, <<>>, handed[r], probe[r])
  /\ UNCHANGED <<res, cleanup, dirs, files, truncated, BUCKET, body>>

FfmpegOutcomes == {"ok", "fail"}

\* dest emits "finish": the promise resolves and the handler runs, without
\* a further await, statSync(inputPath), getDurationSeconds, extractAudio,
\* statSync(audioPath) and the call of uploadAndSign up to its first await.
DestFinish(r, po) ==
  /\ procUp
  /\ pc[r] = "piping"
  /\ LET fid == body[r].fileId
         wd  == WorkDir(fid)
         inp == InputPath(fid)
         o   == Options(body[r])
         aud == AudioPath(fid, o.format)
         fs1 == [Fs EXCEPT !.truncated = @ \ {inp}]
         sp1 == <<ExecSync(FfprobeCommand(inp))>>
         sp2 == sp1 \o <<ExecFileSync(S_ffmpeg, FfmpegArgs(inp, aud, o))>>
         pb  == [out |-> po, durationSec |-> GetDurationSeconds(po)]
     IN  \E ff \in FfmpegOutcomes, rmo \in RmOutcomes :
           IF inp \notin files
             THEN Fails(r, wd, "stat", fs1, rmo, <<"StatInput">>, <<>>,
                        handed[r], probe[r])
           ELSE IF ~SupportedFormat(o.format)
             THEN Fails(r, wd, "Unsupported format", fs1, rmo,
                        <<"StatInput", "ProbeMeta", "Transcode">>, sp1, o, pb)
           ELSE IF ff = "fail"
             THEN Fails(r, wd, "ffmpeg", fs1, rmo,
                        <<"StatInput", "ProbeMeta", "Transcode">>, sp2, o, pb)
           ELSE IF MissingBucket(BUCKET)
             THEN Fails(r, wd, "Missing BUCKET env var",
                        [fs1 EXCEPT !.files = @ \cup {aud}], rmo,
                        <<"StatInput", "ProbeMeta", "Transcode", "StatAudio", "Upload">>,
                        sp2, o, pb)
           ELSE Goes(r, "reading", [fs1 EXCEPT !.files = @ \cup {aud}],
                     <<"StatInput", "ProbeMeta", "Transcode", "StatAudio", "Upload">>,
                     sp2, o, pb)
  /\ UNCHANGED body

\* storage.bucket(BUCKET).upload(localPath, ...) opens localPath for reading;
\* with the file gone the upload rejects.
UploadOpens(r) ==
  /\ procUp
  /\ pc[r] = "reading"
  /\ LET wd  == WorkDir(body[r].fileId)
         aud == AudioPath(body[r].fileId, handed[r].format)
     IN  IF aud \in files
           THEN Goes(r, "uploading", Fs, <<>>, <<>>, handed[r], probe[r])
         ELSE \E rmo \in RmOutcomes :
                Fails(r, wd, "upload", Fs, rmo, <<>>, <<>>, handed[r], probe[r])
  /\ UNCHANGED body

\* await upload(...) rejects.
UploadRejects(r) ==
  /\ procUp
  /\ pc[r] = "uploading"
  /\ \E rmo \in RmOutcomes :
       Fails(r, WorkDir(body[r].fileId), "upload", Fs, rmo, <<>>, <<>>,
             handed[r], probe[r])
  /\ UNCHANGED body

\* await upload(...) resolves: getSignedUrl is called.
UploadResolves(r) ==
  /\ procUp
  /\ pc[r] = "uploading"
  /\ Goes(r, "signing", Fs, <<"Sign">>, <<>>, handed[r], probe[r])
  /\ UNCHANGED body

\* await getSignedUrl(...) rejects.
SignRejects(r) ==
  /\ procUp
  /\ pc[r] = "signing"
  /\ \E rmo \in RmOutcomes :
       Fails(r, WorkDir(body[r].fileId), "sign", Fs, rmo, <<>>, <<>>,
             handed[r], probe[r])
  /\ UNCHANGED body

\* await getSignedUrl(...) resolves: return res.json({...}), then finally.
SignResolves(r) ==
  /\ procUp
  /\ pc[r] = "signing"
  /\ \E rmo \in RmOutcomes :
       Ends(r, WorkDir(body[r].fileId), JsonResult(r), Fs, rmo, <<>>, <<>>,
            handed[r], probe[r])
  /\ UNCHANGED body

\* One step of the service: requests R arrive with bodies from Bodies, and
\* ffprobe answers from Probes.
Handler(R, Bodies, Probes) ==
  \E r \in R :
    \/ pc[r] = "idle" /\ \E b \in Bodies : Start(r, b)
    \/ DriveGetRejects(r)
    \/ DriveGetResolves(r)
    \/ StreamOpens(r)
    \/ DestError(r)
    \/ SourceError(r)
    \/ \E po \in Probes : DestFinish(r, po)
    \/ UploadOpens(r)
    \/ UploadRejects(r)
    \/ UploadResolves(r)
    \/ SignRejects(r)
    \/ SignResolves(r)

(***************************************************************************)
(* The inputs.  A body member is what JSON.parse can give: absent          *)
(* (Undefined), null, a boolean, a number (1e999 parses to Infinity), a    *)
(* string or an object.                                                    *)
(***************************************************************************)
S_a == <<"a">>
S_b == <<"b">>
S_xyz == <<"x", "y", "z">>

\* ffprobe's answers in the specifications that are not about the probe: the
\* usual one (a duration as a decimal string), or that and a failing probe.
ProbeUsual == {ProbeOut("json", "format", Str(<<"2">>))}

Probes == ProbeUsual \cup {ProbeOut("fail", "null", Undefined)}

\* Concurrent requests: no file id or one of two, a supported and an
\* unsupported format.
Bodies ==
  {Body(f, fmt, Undefined, Undefined, Undefined) :
     f \in {Undefined, Str(S_a), Str(S_b)}, fmt \in {Undefined, Str(S_xyz)}}

Next == Handler(Req, Bodies, ProbeUsual)

Spec == Init /\ [][Next]_vars

\* One request, every kind of fileId and format.
FileIds ==
  {Undefined, Null, Str(<<>>), Num(0), Bool(FALSE), Str(S_a), Num(7)}

Formats ==
  {Undefined, Null, Str(<<>>), Num(0), Str(S_ogg), Str(<<"M", "P", "3">>),
   Str(<<"W", "a", "v">>), Str(S_xyz), Str(<<"o", "g", "g", " ">>),
   Num(5), Bool(TRUE), Obj}

ValidateBodies ==
  {Body(f, fmt, Undefined, Undefined, Undefined) : f \in FileIds, fmt \in Formats}

NextValidate == Handler({1}, ValidateBodies, Probes)

SpecValidate == Init /\ [][NextValidate]_vars

\* One request, every kind of numeric option.
Numerics ==
  {Undefined, Null, Num(64), Num(0), Num(0 - 5), Infinity, Str(<<"6", "4">>),
   Str(<<" ", "8", " ">>), Str(<<"-", "3">>), Str(<<"a", "b", "c">>), Str(<<>>),
   Bool(TRUE), Bool(FALSE), Obj}

OptionBodies ==
  {Body(Str(S_a), fmt, k, s, c) :
     fmt \in {Undefined, Str(S_wav)}, k \in Numerics, s \in Numerics, c \in Numerics}

NextOptions == Handler({1}, OptionBodies, ProbeUsual)

SpecOptions == Init /\ [][NextOptions]_vars

\* One request, every kind of ffprobe answer.
Durations ==
  {Undefined, Null, Str(<<>>), Str(<<"2">>), Str(<<"N", "/", "A">>), Num(2),
   Num(0), Bool(TRUE), Bool(FALSE), Obj}

ProbeAnswers ==
  {ProbeOut("fail", "null", Undefined), ProbeOut("notjson", "null", Undefined),
   ProbeOut("json", "null", Undefined), ProbeOut("json", "noformat", Undefined)}
  \cup {ProbeOut("json", "format", d) : d \in Durations}

ProbeBodies ==
  {Body(Str(S_a), fmt, Undefined, Undefined, Undefined) : fmt \in {Undefined, Str(S_xyz)}}

NextProbe == Handler({1}, ProbeBodies, ProbeAnswers)

SpecProbe == Init /\ [][NextProbe]_vars

(***************************************************************************)
(* Vocabulary of the properties.                                           *)
(***************************************************************************)
Started(r, stage) == \E i \in 1..Len(stages[r]) : stages[r][i] = stage

Arrived(r) == pc[r] # "idle"

Spawned(r, api) == \E i \in 1..Len(spawns[r]) : spawns[r][i].api = api

\* The request's format lower-cases to something other than ogg, mp3, wav.
UnsupportedRequest(r) ==
  /\ Arrived(r)
  /\ body[r].format.t = "string"
  /\ body[r].format.s # <<>>
  /\ ToLowerCase(body[r].format.s) \notin {S_ogg, S_mp3, S_wav}

(***************************************************************************)
(* C1.  A request without a (truthy) fileId is answered 400 with an error  *)
(* field, whatever its other body members are, and creates no working      *)
(* directory.                                                              *)
(***************************************************************************)
C1_MissingFileIdIs400 ==
  \A r \in Req :
    (Arrived(r) /\ ~Truthy(body[r].fileId)) =>
      /\ res[r].status = 400
      /\ res[r].error
      /\ ~Started(r, "CreateWorkDir")
      /\ dirs = {}

(***************************************************************************)
(* C2.  As claimed: with BUCKET unset every request is answered 500 with   *)
(* an error field, with no working directory created and no download       *)
(* started.                                                                *)
(***************************************************************************)
C2_NoBucketIs500 ==
  \A r \in Req :
    (Arrived(r) /\ ~Truthy(BUCKET)) =>
      /\ res[r].status = 500
      /\ res[r].error
      /\ ~Started(r, "CreateWorkDir")
      /\ ~Started(r, "Fetch")

(***************************************************************************)
(* C2, amended.  With BUCKET unset no request creates a working directory  *)
(* or starts a download, and whatever the handler answers is 400 with an   *)
(* error field when the fileId is missing (that check comes first) and 500 *)
(* with an error field when it is present; the handler does answer every   *)
(* request whose format is absent, falsy or a string.                      *)
(***************************************************************************)
C2_NoBucketNoFetch ==
  ~Truthy(BUCKET) =>
    /\ dirs = {}
    /\ files = {}
    /\ \A r \in Req :
         Arrived(r) =>
           /\ stages[r] \in {<<>>, <<"Respond">>}
           /\ spawns[r] = <<>>
           /\ res[r].by = "handler" =>
                /\ res[r].error
                /\ res[r].count = 1
                /\ res[r].status = IF Truthy(body[r].fileId) THEN 500 ELSE 400
           /\ (body[r].format.t = "string" \/ ~Truthy(body[r].format)) =>
                res[r].by = "handler"

\* A request with a fileId has been answered 500 for the missing bucket.
C2_Witness ==
  \E r \in Req :
    /\ ~Truthy(BUCKET)
    /\ Truthy(body[r].fileId)
    /\ pc[r] = "done"
    /\ res[r].status = 500
    /\ res[r].msg = "Missing BUCKET env var"

(***************************************************************************)
(* C3.  As claimed: a request that created its working directory finishes *)
(* with the directory gone, on every exit path.                            *)
(***************************************************************************)
C3_WorkDirGone ==
  \A r \in Req :
    (pc[r] = "done" /\ Started(r, "Fetch")) =>
      /\ cleanup[r].ran
      /\ ~cleanup[r].left

(***************************************************************************)
(* C3, amended.  A request that created its working directory runs the     *)
(* removal on every exit path, after its one response; the directory is   *)
(* gone when the request finishes unless the removal itself failed, which  *)
(* is swallowed (the request still finishes with its one 200 or 500        *)
(* response and the process stays up); removing an absent directory never  *)
(* fails.                                                                  *)
(***************************************************************************)
C3_CleanupBestEffort ==
  \A r \in Req :
    /\ (pc[r] = "done" /\ Started(r, "Fetch")) =>
         /\ cleanup[r].ran
         /\ ~cleanup[r].threw => ~cleanup[r].left
         /\ res[r].count = 1
         /\ res[r].by = "handler"
         /\ res[r].status \in {200, 500}
         /\ SubSeq(stages[r], Len(stages[r]) - 1, Len(stages[r]))
              = <<"Respond", "Cleanup">>
    /\ cleanup[r].threw => (cleanup[r].existed /\ cleanup[r].left /\ pc[r] = "done")
    /\ (cleanup[r].ran /\ ~cleanup[r].existed) => (~cleanup[r].threw /\ ~cleanup[r].left)

\* One request ends 200 with its directory removed, another one ends with a
\* removal that found the directory already gone.
C3_Witness ==
  \E r1, r2 \in Req :
    /\ pc[r1] = "done" /\ res[r1].status = 200
    /\ cleanup[r1].existed /\ ~cleanup[r1].left
    /\ pc[r2] = "done" /\ Started(r2, "Fetch")
    /\ cleanup[r2].ran /\ ~cleanup[r2].existed /\ ~cleanup[r2].threw

(***************************************************************************)
(* C4.  As claimed: a request with an unsupported format starts no         *)
(* subprocess at all, and fails at the transcode stage with the            *)
(* unsupported-format error and status 500.                                *)
(***************************************************************************)
C4_UnsupportedSpawnsNothing ==
  \A r \in Req :
    UnsupportedRequest(r) =>
      /\ spawns[r] = <<>>
      /\ Started(r, "Transcode") =>
           (res[r].status = 500 /\ res[r].msg = "Unsupported format")

(***************************************************************************)
(* C4, amended.  A request with an unsupported format never runs ffmpeg    *)
(* and is never answered 200; when it reaches the transcode stage it fails *)
(* there with the unsupported-format error and status 500, and by then the *)
(* ffprobe probe, which runs before the format is looked at, has been      *)
(* started.                                                                *)
(***************************************************************************)
C4_UnsupportedNeverTranscodes ==
  \A r \in Req :
    UnsupportedRequest(r) =>
      /\ ~Spawned(r, "execFileSync")
      /\ Len(spawns[r]) <= 1
      /\ res[r].status # 200
      /\ ~Started(r, "StatAudio")
      /\ ~Started(r, "Upload")
      /\ Started(r, "Transcode") =>
           /\ pc[r] = "done"
           /\ res[r].status = 500
           /\ res[r].msg = "Unsupported format"
           /\ Len(spawns[r]) = 1
           /\ spawns[r][1].api = "execSync"

\* An unsupported format has failed at the transcode stage, after the probe.
C4_Witness ==
  \E r \in Req :
    /\ UnsupportedRequest(r)
    /\ res[r].status = 500
    /\ res[r].msg = "Unsupported format"
    /\ Spawned(r, "execSync")

(***************************************************************************)
(* C5.  A request whose download stream reported an error part-way (the    *)
(* handler is then left at "hung") has failed its fetch: it has been       *)
(* answered 500, once, and has cleaned up; it neither went on with a       *)
(* truncated file nor stays without a response.                            *)
(***************************************************************************)
StreamErrored(r) == pc[r] = "hung"

C5_StreamErrorFailsFetch ==
  \A r \in Req :
    StreamErrored(r) =>
      /\ res[r].status = 500
      /\ res[r].count = 1
      /\ cleanup[r].ran

(***************************************************************************)
(* C6.  Every subprocess of a request is started with an explicit argument *)
(* vector, none through a shell command string.                            *)
(***************************************************************************)
C6_NoShellCommand ==
  \A r \in Req :
    \A i \in 1..Len(spawns[r]) :
      /\ ~spawns[r][i].shell
      /\ spawns[r][i].command = <<>>

(***************************************************************************)
(* C7.  Whatever bitrateK, sampleRate and channels are, parsing them does   *)
(* not fail the request (with a format that is absent, falsy or a string   *)
(* it gets past validation into the pipeline), and extractAudio is handed, *)
(* for each of them, the supplied value as a number when it converts to a  *)
(* finite number above 0 and otherwise the default: 32, 16000 and 1.       *)
(***************************************************************************)
Converted(v, dflt) ==
  IF Number(v).t = "number" /\ Number(v).n > 0 THEN Number(v) ELSE Num(dflt)

C7_NumericDefaults ==
  \A r \in Req :
    /\ (Arrived(r) /\ (body[r].format.t = "string" \/ ~Truthy(body[r].format))) =>
         /\ pc[r] # "rejected"
         /\ (Truthy(body[r].fileId) /\ Truthy(BUCKET)) => Started(r, "CreateWorkDir")
    /\ Started(r, "Transcode") =>
         /\ handed[r].bitrateK = Converted(body[r].bitrateK, 32)
         /\ handed[r].sampleRate = Converted(body[r].sampleRate, 16000)
         /\ handed[r].channels = Converted(body[r].channels, 1)
         /\ \A v \in {handed[r].bitrateK, handed[r].sampleRate, handed[r].channels} :
              v.t = "number" /\ v.n > 0

\* A numeric string is taken, a zero and a non-numeric string are replaced.
C7_Witness ==
  \E r \in Req :
    /\ Started(r, "Upload")
    /\ body[r].bitrateK = Str(<<"6", "4">>) /\ handed[r].bitrateK = Num(64)
    /\ body[r].sampleRate = Str(<<"a", "b", "c">>) /\ handed[r].sampleRate = Num(16000)
    /\ body[r].channels = Num(0) /\ handed[r].channels = Num(1)

(***************************************************************************)
(* C8.  getDurationSeconds gives null when the probe command fails, when   *)
(* its output is not JSON and when the duration member is missing or not   *)
(* numeric (null, the empty string, a boolean, an object, a non-numeric    *)
(* string); it gives a number only for a numeric duration, and a null      *)
(* never fails the request.                                                *)
(***************************************************************************)
NumericDuration(po) ==
  /\ po.kind = "json"
  /\ po.shape = "format"
  /\ \/ po.d.t = "number"
     \/ po.d.t = "string" /\ AllDigits(po.d.s)

C8_DurationNullUnlessNumeric ==
  \A r \in Req :
    probe[r].out.kind # "none" =>
      /\ ~NumericDuration(probe[r].out) => probe[r].durationSec = Null
      /\ probe[r].durationSec.t \in {"null", "number"}
      /\ probe[r].durationSec.t = "number" => NumericDuration(probe[r].out)
      /\ Started(r, "Transcode")

(***************************************************************************)
(* C9.  The stages of a request start at most once each and in the order   *)
(* CreateWorkDir, Fetch, ProbeMeta (the input's size and duration),        *)
(* Transcode, StatSizes (the audio's size), Publish (Upload, then Sign),   *)
(* Respond, Cleanup; a failed Fetch, Transcode or Publish skips the later  *)
(* stages and is answered by exactly one 500, followed by Cleanup; a 200   *)
(* with audioUrl is sent only after upload and signing.                    *)
(***************************************************************************)
StageOrder ==
  <<"CreateWorkDir", "Fetch", "StatInput", "ProbeMeta", "Transcode",
    "StatAudio", "Upload", "Sign", "Respond", "Cleanup">>

Rank(stage) == CHOOSE i \in 1..Len(StageOrder) : StageOrder[i] = stage

InOrder(seq) == \A i, j \in 1..Len(seq) : i < j => Rank(seq[i]) < Rank(seq[j])

\* The fetch of the request has failed: a rejected download, or a stream
\* that reported an error.
FetchFailed(r) == res[r].msg = "fetch" \/ StreamErrored(r)

C9_StagesInOrder ==
  \A r \in Req :
    /\ InOrder(stages[r])
    /\ res[r].count <= 1
    /\ res[r].audioUrl =>
         /\ res[r].status = 200
         /\ stages[r] = <<"CreateWorkDir", "Fetch", "StatInput", "ProbeMeta", "Transcode",
                          "StatAudio", "Upload", "Sign", "Respond", "Cleanup">>
    /\ res[r].msg \in {"fetch", "ffmpeg", "Unsupported format", "upload", "sign"} =>
         /\ res[r].status = 500
         /\ SubSeq(stages[r], Len(stages[r]) - 1, Len(stages[r])) = <<"Respond", "Cleanup">>
    /\ FetchFailed(r) =>
         /\ res[r].status = 500
         /\ res[r].count = 1
         /\ stages[r] = <<"CreateWorkDir", "Fetch", "Respond", "Cleanup">>

(***************************************************************************)
(* C10.  Requests with the same fileId use the same working directory and  *)
(* nothing keeps one of them from removing it under the other: whenever a  *)
(* request finishes with a removal that did not fail while another request *)
(* with the same fileId is between creating the directory and the end of   *)
(* its upload, the other request's directory, input file and audio file    *)
(* are gone after that step.                                               *)
(***************************************************************************)
InFlight(r) == pc[r] \in {"getting", "opening", "piping", "reading", "uploading"}

C10_CleanupRemovesSharedDir ==
  [][\A r1, r2 \in Req :
       ( /\ r1 # r2
         /\ body[r1].fileId = body[r2].fileId
         /\ InFlight(r2)
         /\ pc[r1] # "done" /\ pc'[r1] = "done"
         /\ cleanup'[r1].ran /\ ~cleanup'[r1].threw )
       => /\ WorkDir(body[r2].fileId) \notin dirs'
          /\ InputPath(body[r2].fileId) \notin files'
          /\ AudioPath(body[r2].fileId, Format(body[r2])) \notin files'
          /\ InFlight(r2)']_vars

\* One request has finished and removed the directory; the other, with the
\* same fileId, is still uploading the audio file it has just lost.
C10_Witness ==
  \E r1, r2 \in Req :
    /\ r1 # r2
    /\ body[r1].fileId = body[r2].fileId
    /\ pc[r1] = "done" /\ cleanup[r1].existed /\ ~cleanup[r1].left
    /\ pc[r2] = "uploading"
    /\ WorkDir(body[r2].fileId) \notin dirs
    /\ AudioPath(body[r2].fileId, Format(body[r2])) \notin files

=============================================================================
